---- MODULE Spec2Model ----
(***************************************************************************)
(* Message buffering and debounced dispatch of the chat backend:           *)
(*   app/core/buffer.py             the buffer kept in Redis               *)
(*   app/routers/api/v1/websocket.py  handle_chat_message, the manager     *)
(*   app/core/redis.py              enqueue_job (RQ)                       *)
(*   app/jobs/send_message.py       process_buffered_messages (RQ worker)  *)
(*   app/services/agent_service.py  process_message                        *)
(* One conversation (store_id, session_id) is modelled.  Time is counted   *)
(* in whole seconds and kept relative to datetime.now(): a time to live is *)
(* the seconds a key still has, process_at is the seconds still to go      *)
(* (0 once reached), and of a timestamp it is kept whether it was taken    *)
(* within the current second.  Text is a sequence of one-character         *)
(* strings.                                                                *)
(***************************************************************************)
EXTENDS Integers, Sequences, FiniteSets, TLC

\* ------------------------------------------------------------- constants
\* settings.MESSAGE_BUFFER_TIMEOUT_SECONDS
MESSAGE_BUFFER_TIMEOUT_SECONDS == 2
\* the "+ 10" of ex=settings.MESSAGE_BUFFER_TIMEOUT_SECONDS + 10
TTL_EXTRA_SECONDS == 10

\* settings.MESSAGE_BUFFER_TIMEOUT_SECONDS + 10, the time to live of both keys
BUFFER_TTL == MESSAGE_BUFFER_TIMEOUT_SECONDS + TTL_EXTRA_SECONDS

\* --------------------------------------------------------------- bounds
\* inbound messages over the whole run
MaxMsgs == 2
\* seconds the bounded clock of Spec counts
MaxTicks == 2

\* the websocket connections of the conversation (each runs websocket_chat)
Handlers == {"h1", "h2"}
\* the RQ worker processes
Workers == {"w1", "w2"}
\* message contents a client sends
Contents == {<<"a", " ">>, <<" ">>}
\* the lists combine_messages is tried on: up to MaxCombine messages
MaxCombine == 3
\* first messages that fail validation, per websocket
MaxRejects == 2
CombineContents == {<<>>, <<" ">>, <<"a">>, <<" ", "a">>, <<"a", " ", "b", "\n">>}
CombineLists ==
    UNION {{[i \in 1..n |-> [id |-> i, content |-> f[i]]] :
                f \in [1..n -> CombineContents]} : n \in 0..MaxCombine}

BUFFER_KEY == "message_buffer:"
PROCESS_AT_KEY == "message_buffer_process_at:"
Keys == {BUFFER_KEY, PROCESS_AT_KEY}

\* payload kinds handed to ConnectionManager.send_message
Kinds == {"typing", "user", "assistant", "error"}
Procs == {"api", "worker"}

VARIABLES
    clock,        \* seconds counted so far by the bounded clock
    storeUp,      \* whether Redis answers
    redis,        \* key -> <<>> (absent) or <<[val, ttl]>>
    queue,        \* the RQ queue: tickets in FIFO order
    nextId,       \* number of the next inbound message, used as its uuid4
    hpc,          \* handler -> position in handle_chat_message
    hmsg,         \* handler -> <<>> or <<[id, content]>>, the message being handled
    hmessages,    \* handler -> local list `messages` of add_message_to_buffer
    hprocess_at,  \* handler -> local `process_at`, in seconds from now
    wpc,          \* worker -> position in process_buffered_messages
    wjob,         \* worker -> <<>> or <<ticket being executed>>
    wmessages,    \* worker -> local list `messages`
    wresp,        \* worker -> outcome of process_message: "none", "ok", "failed"
    transcript,   \* committed ChatMessage rows, in commit order
    genCalls,     \* the calls of process_message: the lists combined
    pushed,       \* <<process, kind>> -> number of manager.send_message calls
    appended,     \* history: entries whose add_message_to_buffer returned
    firsts,       \* history: entries reported is_first_message = True
    recent,       \* ids of the entries whose `timestamp` is in the current second
    burstAge,     \* history: seconds since the buffer key went from absent to present
    lastSetAge,   \* history: seconds since the buffer key was last written
    active_connections,  \* process -> <<>> or <<websocket>>: manager.active_connections
                         \* of that process at the key of the conversation
    received,     \* websocket -> kind -> number of payloads send_json has sent
    accepted,     \* the websockets websocket_chat has connected and not yet left
    broken        \* the accepted websockets whose peer is gone: send_json raises

vars == <<clock, storeUp, redis, queue, nextId, hpc, hmsg, hmessages, hprocess_at,
          wpc, wjob, wmessages, wresp, transcript, genCalls, pushed,
          appended, firsts, recent, burstAge, lastSetAge,
          active_connections, received, accepted, broken>>

hvars == <<hpc, hmsg, hmessages, hprocess_at>>
wvars == <<wpc, wjob, wmessages, wresp>>
dbvars == <<transcript, genCalls>>
histvars == <<appended, firsts, recent, burstAge, lastSetAge>>
wsvars == <<pushed, active_connections, received, accepted, broken>>

\* ------------------------------------------------------------ text
IsSpace(ch) == ch \in {" ", "\n"}

RECURSIVE LStrip(_)
LStrip(s) == IF s # <<>> /\ IsSpace(Head(s)) THEN LStrip(Tail(s)) ELSE s

RECURSIVE RStrip(_)
RStrip(s) ==
    IF s # <<>> /\ IsSpace(s[Len(s)]) THEN RStrip(SubSeq(s, 1, Len(s) - 1)) ELSE s

\* str.strip()
Strip(s) == RStrip(LStrip(s))

RECURSIVE Join(_, _)
\* sep.join(parts)
Join(parts, sep) ==
    IF parts = <<>> THEN <<>>
    ELSE IF Len(parts) = 1 THEN parts[1]
    ELSE parts[1] \o sep \o Join(Tail(parts), sep)

NonEmpty(s) == s # <<>>

\* as combine_messages, but a single message is trimmed like the others
combine_messages_TrimSingle(messages) ==
    Join(SelectSeq([i \in 1..Len(messages) |-> Strip(messages[i].content)],
                   NonEmpty),
         <<"\n", "\n">>)

\* combine_messages(messages)
combine_messages(messages) ==
    IF messages = <<>> THEN <<>>
    ELSE IF Len(messages) = 1 THEN messages[1].content
    ELSE Join(SelectSeq([i \in 1..Len(messages) |-> Strip(messages[i].content)],
                        NonEmpty),
              <<"\n", "\n">>)

\* ------------------------------------------------------------ Redis
Present(key) == redis[key] # <<>>

\* redis.get(buffer_key) followed by json.loads, None read as the empty list
GetBuffer == IF Present(BUFFER_KEY) THEN redis[BUFFER_KEY][1].val ELSE <<>>

\* as SetEx, but the value is written under both keys
SetEx_BothKeys(r, key, val) ==
    [k \in Keys |->
        <<[val |-> val, ttl |-> MESSAGE_BUFFER_TIMEOUT_SECONDS + TTL_EXTRA_SECONDS]>>]

\* as SetEx, the time to live counted from process_at instead of from now
SetEx_FromProcessAt(r, key, val) ==
    [r EXCEPT ![key] =
        <<[val |-> val,
           ttl |-> 2 * MESSAGE_BUFFER_TIMEOUT_SECONDS + TTL_EXTRA_SECONDS]>>]

\* redis.set(key, val, ex=settings.MESSAGE_BUFFER_TIMEOUT_SECONDS + 10)
SetEx(r, key, val) ==
    [r EXCEPT ![key] =
        <<[val |-> val, ttl |-> MESSAGE_BUFFER_TIMEOUT_SECONDS + TTL_EXTRA_SECONDS]>>]

\* redis.delete(buffer_key, process_at_key)
Delete(r) == [k \in Keys |-> <<>>]

Max(a, b) == IF a >= b THEN a ELSE b
Min(a, b) == IF a <= b THEN a ELSE b

\* a second later: a key whose time to live has run out is gone, and the
\* stored process_at is a second nearer
Expire(r) ==
    [k \in Keys |->
        IF r[k] = <<>> \/ r[k][1].ttl <= 1 THEN <<>>
        ELSE <<[val |-> IF k = PROCESS_AT_KEY THEN Max(r[k][1].val - 1, 0)
                        ELSE r[k][1].val,
                ttl |-> r[k][1].ttl - 1]>>]

\* one more call of manager.send_message in process proc with a payload of this kind
Push(p, proc, kind) == [p EXCEPT ![<<proc, kind>>] = @ + 1]

\* as send_message, but a websocket whose send raised stays registered
send_message_KeepRegistered(proc, kind) ==
    /\ pushed' = Push(pushed, proc, kind)
    /\ IF active_connections[proc] = <<>> \/ active_connections[proc][1] \in broken
       THEN UNCHANGED received
       ELSE received' = [received EXCEPT ![active_connections[proc][1]][kind] = @ + 1]
    /\ UNCHANGED <<active_connections, accepted, broken>>

\* ConnectionManager.send_message in process proc: the websocket registered
\* for the conversation gets the payload; when send_json raises, the key is
\* disconnected; without a registered websocket nothing is sent
send_message(proc, kind) ==
    /\ pushed' = Push(pushed, proc, kind)
    /\ IF active_connections[proc] = <<>>
       THEN UNCHANGED <<active_connections, received>>
       ELSE LET websocket == active_connections[proc][1]
            IN  IF websocket \in broken
                THEN /\ active_connections' = [active_connections EXCEPT ![proc] = <<>>]
                     /\ UNCHANGED received
                ELSE /\ received' = [received EXCEPT ![websocket][kind] = @ + 1]
                     /\ UNCHANGED active_connections
    /\ UNCHANGED <<accepted, broken>>

\* ------------------------------------------------------------ Init
\* the processes have started: Redis, queue, database and registries are empty
InitProgram ==
    /\ clock = 0
    /\ storeUp = TRUE
    /\ redis = [k \in Keys |-> <<>>]
    /\ queue = <<>>
    /\ nextId = 1
    /\ hpc = [h \in Handlers |-> "idle"]
    /\ hmsg = [h \in Handlers |-> <<>>]
    /\ hmessages = [h \in Handlers |-> <<>>]
    /\ hprocess_at = [h \in Handlers |-> 0]
    /\ wpc = [w \in Workers |-> "idle"]
    /\ wjob = [w \in Workers |-> <<>>]
    /\ wmessages = [w \in Workers |-> <<>>]
    /\ wresp = [w \in Workers |-> "none"]
    /\ transcript = <<>>
    /\ genCalls = <<>>
    /\ pushed = [p \in Procs \X Kinds |-> 0]
    /\ appended = {}
    /\ firsts = {}
    /\ recent = {}
    /\ burstAge = 0
    /\ lastSetAge = 0
    /\ received = [h \in Handlers |-> [k \in Kinds |-> 0]]
    /\ broken = {}

\* no websocket has connected yet
InitWS ==
    /\ InitProgram
    /\ active_connections = [p \in Procs |-> <<>>]
    /\ accepted = {}

\* websocket_chat has connected the websockets of the conversation, "h1" last
Init ==
    /\ InitProgram
    /\ active_connections = [p \in Procs |-> IF p = "api" THEN <<"h1">> ELSE <<>>]
    /\ accepted = Handlers

\* ------------------------------------------------------------ environment
\* a second passes: times to live and the times still to go run down,
\* no entry is of the current second any more
Second ==
    /\ redis' = Expire(redis)
    /\ queue' = [i \in 1..Len(queue) |-> [wait |-> Max(queue[i].wait - 1, 0)]]
    /\ hprocess_at' = [h \in Handlers |-> Max(hprocess_at[h] - 1, 0)]
    /\ recent' = {}
    /\ burstAge' = IF Expire(redis)[BUFFER_KEY] = <<>> THEN 0
                   ELSE Min(burstAge + 1, BUFFER_TTL + 1)
    /\ lastSetAge' = IF Expire(redis)[BUFFER_KEY] = <<>> THEN 0
                     ELSE Min(lastSetAge + 1, BUFFER_TTL + 1)
    /\ UNCHANGED <<storeUp, nextId, hpc, hmsg, hmessages, wvars, dbvars, wsvars,
                   appended, firsts>>

\* one second passes on the bounded clock
Tick ==
    /\ clock < MaxTicks
    /\ clock' = clock + 1
    /\ Second

\* one second passes, any number of times, between the calls of
\* handle_chat_message and the executions of process_buffered_messages
TickOn ==
    /\ \A h \in Handlers : hpc[h] = "idle"
    /\ \A w \in Workers : wpc[w] = "idle"
    /\ UNCHANGED clock
    /\ Second

\* Redis becomes unreachable: every command raises until it is back
StoreDown ==
    /\ storeUp
    /\ storeUp' = FALSE
    /\ UNCHANGED <<clock, redis, queue, nextId, hvars, wvars, dbvars, wsvars,
                   histvars>>

StoreBack ==
    /\ ~storeUp
    /\ storeUp' = TRUE
    /\ UNCHANGED <<clock, redis, queue, nextId, hvars, wvars, dbvars, wsvars,
                   histvars>>

\* ------------------------------------------------------------ API process
\* the handler of connection h leaves handle_chat_message
HandlerReturn(h) ==
    /\ hpc' = [hpc EXCEPT ![h] = "idle"]
    /\ hmsg' = [hmsg EXCEPT ![h] = <<>>]
    /\ hmessages' = [hmessages EXCEPT ![h] = <<>>]
    /\ hprocess_at' = [hprocess_at EXCEPT ![h] = 0]

\* an exception reaches the except clause of handle_chat_message
HandlerRaise(h) ==
    /\ hpc' = [hpc EXCEPT ![h] = "error"]
    /\ UNCHANGED <<hmsg, hmessages, hprocess_at>>

\* as connect, but a key that is taken keeps its websocket
connect_KeepFirst(h) ==
    /\ h \notin accepted
    /\ accepted' = accepted \cup {h}
    /\ active_connections' =
          IF active_connections["api"] = <<>>
          THEN [active_connections EXCEPT !["api"] = <<h>>]
          ELSE active_connections
    /\ UNCHANGED <<clock, storeUp, redis, queue, nextId, hvars, wvars, dbvars,
                   pushed, received, broken, histvars>>

\* what send_message returns: it has no return statement
send_message_returns(proc, kind) == "None"

\* websocket_chat reaches manager.connect: the websocket is accepted and
\* registered at the key of the conversation, in place of any other
connect(h) ==
    /\ h \notin accepted
    /\ accepted' = accepted \cup {h}
    /\ active_connections' = [active_connections EXCEPT !["api"] = <<h>>]
    /\ UNCHANGED <<clock, storeUp, redis, queue, nextId, hvars, wvars, dbvars,
                   pushed, received, broken, histvars>>

\* the peer of websocket h goes away
PeerGone(h) ==
    /\ h \in accepted \ broken
    /\ broken' = broken \cup {h}
    /\ UNCHANGED <<clock, storeUp, redis, queue, nextId, hvars, wvars, dbvars,
                   pushed, active_connections, received, accepted, histvars>>

\* receive_json raises WebSocketDisconnect and websocket_chat leaves through
\* finally: manager.disconnect(store_id, session_id) pops the key
disconnect(h) ==
    /\ h \in broken
    /\ hpc[h] = "idle"
    /\ accepted' = accepted \ {h}
    /\ broken' = broken \ {h}
    /\ active_connections' = [active_connections EXCEPT !["api"] = <<>>]
    /\ UNCHANGED <<clock, storeUp, redis, queue, nextId, hvars, wvars, dbvars,
                   pushed, received, histvars>>

\* as reject, but the websocket is registered before its first message is
\* validated
reject_Registered(h, has_store_id, valid_uuid) ==
    /\ h \notin accepted
    /\ ~(has_store_id /\ valid_uuid)
    /\ received[h]["error"] < MaxRejects
    /\ received' = [received EXCEPT ![h]["error"] = @ + 1]
    /\ active_connections' = [active_connections EXCEPT !["api"] = <<h>>]
    /\ UNCHANGED <<clock, storeUp, redis, queue, nextId, hvars, wvars, dbvars,
                   pushed, accepted, broken, histvars>>

\* websocket_chat with a first message that gives no store_id, or with a
\* session_id that is not a UUID: websocket.send_json of an error payload,
\* websocket.close() and return, before manager.connect
reject(h, has_store_id, valid_uuid) ==
    /\ h \notin accepted
    /\ ~(has_store_id /\ valid_uuid)
    /\ received[h]["error"] < MaxRejects
    /\ received' = [received EXCEPT ![h]["error"] = @ + 1]
    /\ UNCHANGED <<clock, storeUp, redis, queue, nextId, hvars, wvars, dbvars,
                   pushed, active_connections, accepted, broken, histvars>>

\* websocket_chat up to manager.connect: the first message is validated and
\* the websocket is registered or rejected
websocket_chat(h, has_store_id, valid_uuid) ==
    IF has_store_id /\ valid_uuid
    THEN connect(h)
    ELSE reject(h, has_store_id, valid_uuid)

\* websocket_chat receives a message and calls handle_chat_message, which
\* sends the typing indicator
Receive(h, content) ==
    /\ hpc[h] = "idle"
    /\ h \in accepted \ broken
    /\ nextId <= MaxMsgs
    /\ nextId' = nextId + 1
    /\ hpc' = [hpc EXCEPT ![h] = "get"]
    /\ hmsg' = [hmsg EXCEPT ![h] = <<[id |-> nextId, content |-> content]>>]
    /\ send_message("api", "typing")
    /\ UNCHANGED <<clock, storeUp, redis, queue, hmessages, hprocess_at,
                   wvars, dbvars, histvars>>

\* add_message_to_buffer: redis.get, the new entry, process_at
AddGet(h) ==
    /\ hpc[h] = "get"
    /\ IF storeUp
       THEN /\ hmessages' = [hmessages EXCEPT ![h] =
                  Append(GetBuffer, [id |-> hmsg[h][1].id,
                                     content |-> hmsg[h][1].content])]
            /\ recent' = recent \cup {hmsg[h][1].id}
            /\ hprocess_at' = [hprocess_at EXCEPT ![h] =
                  MESSAGE_BUFFER_TIMEOUT_SECONDS]
            /\ hpc' = [hpc EXCEPT ![h] = "set_buffer"]
            /\ UNCHANGED hmsg
       ELSE /\ HandlerRaise(h)
            /\ UNCHANGED recent
    /\ UNCHANGED <<clock, storeUp, redis, queue, nextId, wvars, dbvars, wsvars,
                   appended, firsts, burstAge, lastSetAge>>

\* add_message_to_buffer: redis.set(buffer_key, ...)
AddSetBuffer(h) ==
    /\ hpc[h] = "set_buffer"
    /\ IF storeUp
       THEN /\ redis' = SetEx(redis, BUFFER_KEY, hmessages[h])
            /\ burstAge' = IF Present(BUFFER_KEY) THEN burstAge ELSE 0
            /\ lastSetAge' = 0
            /\ hpc' = [hpc EXCEPT ![h] = "set_process_at"]
            /\ UNCHANGED <<hmsg, hmessages, hprocess_at>>
       ELSE /\ HandlerRaise(h)
            /\ UNCHANGED <<redis, burstAge, lastSetAge>>
    /\ UNCHANGED <<clock, storeUp, queue, nextId, wvars, dbvars, wsvars,
                   appended, firsts, recent>>

\* the entry add_message_to_buffer appended, as the histories keep it
Entry(h) ==
    [id |-> hmessages[h][Len(hmessages[h])].id, h |-> h]

\* as is_first_message, but true of every non-empty list
is_first_message_AnyCount(h) == Len(hmessages[h]) >= 1

\* is_first_message = len(messages) == 1
is_first_message(h) == Len(hmessages[h]) = 1

\* add_message_to_buffer: redis.set(process_at_key, ...) and the return
AddSetProcessAt(h) ==
    /\ hpc[h] = "set_process_at"
    /\ IF storeUp
       THEN /\ redis' = SetEx(redis, PROCESS_AT_KEY, hprocess_at[h])
            /\ appended' = appended \cup {Entry(h)}
            /\ firsts' = IF is_first_message(h) THEN firsts \cup {Entry(h)} ELSE firsts
            /\ hpc' = [hpc EXCEPT ![h] = "schedule"]
            /\ UNCHANGED <<hmsg, hmessages, hprocess_at>>
       ELSE /\ HandlerRaise(h)
            /\ UNCHANGED <<redis, appended, firsts>>
    /\ UNCHANGED <<clock, storeUp, queue, nextId, wvars, dbvars, wsvars,
                   recent, burstAge, lastSetAge>>

\* delay_seconds = max(0, (process_at - dt.now()).total_seconds())
delay_seconds(h) == Max(0, hprocess_at[h])

\* enqueue_job(process_buffered_messages_sync, args=(store_id, session_id),
\* job_timeout=300): queue.enqueue puts the job at the end of the queue.  The
\* job holds the two ids only and no delay; wait records what is left of the
\* delay_seconds the handler had computed.
enqueue_job(q, h) == Append(q, [wait |-> delay_seconds(h)])

\* handle_chat_message after add_message_to_buffer: the echo of the user's
\* message, and for a first message the job
HandleSchedule(h) ==
    /\ hpc[h] = "schedule"
    /\ send_message("api", "user")
    /\ IF is_first_message(h)
       THEN IF storeUp
            THEN /\ queue' = enqueue_job(queue, h)
                 /\ HandlerReturn(h)
            ELSE /\ HandlerRaise(h)
                 /\ UNCHANGED queue
       ELSE /\ HandlerReturn(h)
            /\ UNCHANGED queue
    /\ UNCHANGED <<clock, storeUp, redis, nextId, wvars, dbvars, histvars>>

\* as HandleError, but the exception is logged only
HandleError_LogOnly(h) ==
    /\ hpc[h] = "error"
    /\ HandlerReturn(h)
    /\ UNCHANGED <<clock, storeUp, redis, queue, nextId, wvars, dbvars, wsvars,
                   histvars>>

\* the except clause of handle_chat_message: the error payload
HandleError(h) ==
    /\ hpc[h] = "error"
    /\ send_message("api", "error")
    /\ HandlerReturn(h)
    /\ UNCHANGED <<clock, storeUp, redis, queue, nextId, wvars, dbvars, histvars>>

\* ------------------------------------------------------------ RQ worker
\* process_buffered_messages returns or raises: the worker is free again
WorkerReturn(w) ==
    /\ wpc' = [wpc EXCEPT ![w] = "idle"]
    /\ wjob' = [wjob EXCEPT ![w] = <<>>]
    /\ wmessages' = [wmessages EXCEPT ![w] = <<>>]
    /\ wresp' = [wresp EXCEPT ![w] = "none"]

WorkerGoto(w, pc) ==
    /\ wpc' = [wpc EXCEPT ![w] = pc]
    /\ UNCHANGED <<wjob, wmessages, wresp>>

\* clear_buffer: redis.delete of both keys; an exception is logged and False
\* is returned
clear_buffer(r) == IF storeUp THEN Delete(r) ELSE r

\* the worker calls clear_buffer
ClearBuffer ==
    /\ redis' = clear_buffer(redis)
    /\ burstAge' = IF clear_buffer(redis)[BUFFER_KEY] = <<>> THEN 0 ELSE burstAge
    /\ lastSetAge' = IF clear_buffer(redis)[BUFFER_KEY] = <<>> THEN 0 ELSE lastSetAge
    /\ UNCHANGED <<appended, firsts, recent>>

\* Worker.work: the worker takes the job at the head of the queue and calls
\* process_buffered_messages_sync
WorkerStart(w) ==
    /\ wpc[w] = "idle"
    /\ storeUp
    /\ queue # <<>>
    /\ queue' = Tail(queue)
    /\ wjob' = [wjob EXCEPT ![w] = <<Head(queue)>>]
    /\ wpc' = [wpc EXCEPT ![w] = "read"]
    /\ UNCHANGED <<clock, storeUp, redis, nextId, hvars, wmessages, wresp, dbvars,
                   wsvars, histvars>>

\* as get_buffered_messages, but only the message the job was enqueued for
get_buffered_messages_FirstOnly ==
    IF storeUp /\ Present(BUFFER_KEY) THEN <<GetBuffer[1]>> ELSE <<>>

\* get_buffered_messages: the list, or None when the key is absent or the
\* read raises
get_buffered_messages == IF storeUp THEN GetBuffer ELSE <<>>

\* as ProcRead, but an execution that finds no burst tells the client so
ProcRead_NotifyNoBurst(w) ==
    /\ wpc[w] = "read"
    /\ LET messages == get_buffered_messages
       IN  IF messages = <<>>
           THEN /\ WorkerReturn(w)
                /\ send_message("worker", "assistant")
           ELSE /\ wmessages' = [wmessages EXCEPT ![w] = messages]
                /\ wpc' = [wpc EXCEPT ![w] =
                      IF Strip(combine_messages(messages)) = <<>>
                      THEN "clear_empty" ELSE "flush"]
                /\ UNCHANGED <<wjob, wresp, wsvars>>
    /\ UNCHANGED <<clock, storeUp, redis, queue, nextId, hvars, dbvars, histvars>>

\* process_buffered_messages up to the database session: the read, the
\* early return, combine_messages and the empty check
ProcRead(w) ==
    /\ wpc[w] = "read"
    /\ LET messages == get_buffered_messages
       IN  IF messages = <<>>
           THEN WorkerReturn(w)
           ELSE /\ wmessages' = [wmessages EXCEPT ![w] = messages]
                /\ wpc' = [wpc EXCEPT ![w] =
                      IF Strip(combine_messages(messages)) = <<>>
                      THEN "clear_empty" ELSE "flush"]
                /\ UNCHANGED <<wjob, wresp>>
    /\ UNCHANGED <<clock, storeUp, redis, queue, nextId, hvars, dbvars, wsvars,
                   histvars>>

\* as ProcClearEmpty, but the empty text is sent as a reply
ProcClearEmpty_Reply(w) ==
    /\ wpc[w] = "clear_empty"
    /\ ClearBuffer
    /\ WorkerReturn(w)
    /\ send_message("worker", "assistant")
    /\ UNCHANGED <<clock, storeUp, queue, nextId, hvars, dbvars>>

\* the combined message is empty: clear_buffer and return ""
ProcClearEmpty(w) ==
    /\ wpc[w] = "clear_empty"
    /\ ClearBuffer
    /\ WorkerReturn(w)
    /\ UNCHANGED <<clock, storeUp, queue, nextId, hvars, dbvars, wsvars>>

\* db.add of the user messages and db.flush, which may raise
ProcFlush(w) ==
    /\ wpc[w] = "flush"
    /\ \E ok \in BOOLEAN : WorkerGoto(w, IF ok THEN "generate" ELSE "except")
    /\ UNCHANGED <<clock, storeUp, redis, queue, nextId, hvars, dbvars, wsvars,
                   histvars>>

\* process_message(user_message=combined_message): the reply of the agent,
\* or, when the graph raises, the text "I encountered an error: ..."
ProcGenerate(w) ==
    /\ wpc[w] = "generate"
    /\ genCalls' = Append(genCalls,
          [ids |-> [i \in 1..Len(wmessages[w]) |-> wmessages[w][i].id],
           user_message |-> combine_messages(wmessages[w])])
    /\ \E r \in {"ok", "failed"} : wresp' = [wresp EXCEPT ![w] = r]
    /\ wpc' = [wpc EXCEPT ![w] = "commit"]
    /\ UNCHANGED <<clock, storeUp, redis, queue, nextId, hvars, wjob, wmessages,
                   transcript, wsvars, histvars>>

\* as Rows, but the assistant row comes first
Rows_AssistantFirst(w) ==
    <<[role |-> "assistant", id |-> 0, text |-> wresp[w]]>>
    \o [i \in 1..Len(wmessages[w]) |->
          [role |-> "user", id |-> wmessages[w][i].id, text |-> "content"]]

\* the rows one execution commits: a user row per buffered message, then the
\* assistant row
Rows(w) ==
    [i \in 1..Len(wmessages[w]) |->
        [role |-> "user", id |-> wmessages[w][i].id, text |-> "content"]]
    \o <<[role |-> "assistant", id |-> 0, text |-> wresp[w]]>>

\* as ProcCommit, but a failed commit leaves the flushed user rows behind
ProcCommit_KeepFlushed(w) ==
    /\ wpc[w] = "commit"
    /\ \/ /\ transcript' = transcript \o Rows(w)
          /\ WorkerGoto(w, "clear")
       \/ /\ transcript' = transcript \o SubSeq(Rows(w), 1, Len(wmessages[w]))
          /\ WorkerGoto(w, "except")
    /\ UNCHANGED <<clock, storeUp, redis, queue, nextId, hvars, genCalls, wsvars,
                   histvars>>

\* db.add(assistant_msg) and db.commit, which may raise; leaving the session
\* after an exception rolls the user rows back
ProcCommit(w) ==
    /\ wpc[w] = "commit"
    /\ \/ /\ transcript' = transcript \o Rows(w)
          /\ WorkerGoto(w, "clear")
       \/ /\ UNCHANGED transcript
          /\ WorkerGoto(w, "except")
    /\ UNCHANGED <<clock, storeUp, redis, queue, nextId, hvars, genCalls, wsvars,
                   histvars>>

\* as ProcClear, but the buffer is kept when it is no longer the list read
ProcClear_IfUnchanged(w) ==
    /\ wpc[w] = "clear"
    /\ IF GetBuffer = wmessages[w]
       THEN ClearBuffer
       ELSE UNCHANGED <<redis, histvars>>
    /\ WorkerGoto(w, "push")
    /\ UNCHANGED <<clock, storeUp, queue, nextId, hvars, dbvars, wsvars>>

\* as ProcClear, but the buffer is kept when the reply is the error text
ProcClear_KeepOnFailure(w) ==
    /\ wpc[w] = "clear"
    /\ IF wresp[w] = "failed"
       THEN UNCHANGED <<redis, histvars>>
       ELSE ClearBuffer
    /\ WorkerGoto(w, "push")
    /\ UNCHANGED <<clock, storeUp, queue, nextId, hvars, dbvars, wsvars>>

\* clear_buffer after the commit
ProcClear(w) ==
    /\ wpc[w] = "clear"
    /\ ClearBuffer
    /\ WorkerGoto(w, "push")
    /\ UNCHANGED <<clock, storeUp, queue, nextId, hvars, dbvars, wsvars>>

\* manager.send_message(... {"type": "message", "role": "assistant",
\* "content": assistant_response}) and the return
ProcPush(w) ==
    /\ wpc[w] = "push"
    /\ send_message("worker", "assistant")
    /\ WorkerReturn(w)
    /\ UNCHANGED <<clock, storeUp, redis, queue, nextId, hvars, dbvars, histvars>>

\* as ProcExcept, but the exception is raised again without clear_buffer
ProcExcept_RaiseOnly(w) ==
    /\ wpc[w] = "except"
    /\ WorkerReturn(w)
    /\ UNCHANGED <<clock, storeUp, redis, queue, nextId, hvars, dbvars, wsvars,
                   histvars>>

\* the except clause: clear_buffer, then raise
ProcExcept(w) ==
    /\ wpc[w] = "except"
    /\ ClearBuffer
    /\ WorkerReturn(w)
    /\ UNCHANGED <<clock, storeUp, queue, nextId, hvars, dbvars, wsvars>>

\* ------------------------------------------------------------ specification
\* what the API process does for the websockets hs
HandlerSteps(hs) ==
    \/ \E h \in hs, c \in Contents : Receive(h, c)
    \/ \E h \in hs : AddGet(h)
    \/ \E h \in hs : AddSetBuffer(h)
    \/ \E h \in hs : AddSetProcessAt(h)
    \/ \E h \in hs : HandleSchedule(h)
    \/ \E h \in hs : HandleError(h)

\* what the workers ws do
WorkerSteps(ws) ==
    \/ \E w \in ws : WorkerStart(w)
    \/ \E w \in ws : ProcRead(w)
    \/ \E w \in ws : ProcClearEmpty(w)
    \/ \E w \in ws : ProcFlush(w)
    \/ \E w \in ws : ProcGenerate(w)
    \/ \E w \in ws : ProcCommit(w)
    \/ \E w \in ws : ProcClear(w)
    \/ \E w \in ws : ProcPush(w)
    \/ \E w \in ws : ProcExcept(w)

\* what the API process and the workers do
Program(hs, ws) == HandlerSteps(hs) \/ WorkerSteps(ws)

\* two connections and two workers over a few seconds
Next ==
    \/ Tick
    \/ StoreDown
    \/ StoreBack
    \/ Program(Handlers, Workers)

Spec == Init /\ [][Next]_vars

\* one connection and one worker over any length of time
NextTTL ==
    \/ TickOn
    \/ StoreDown
    \/ StoreBack
    \/ Program({"h1"}, {"w1"})

SpecTTL == Init /\ [][NextTTL]_vars

\* the API process alone: two websockets that connect, lose their peer and
\* disconnect, one of them sending messages, and Redis that comes and goes
NextWS ==
    \/ \E h \in Handlers : connect(h)
    \/ \E h \in Handlers : PeerGone(h)
    \/ \E h \in Handlers : disconnect(h)
    \/ StoreDown
    \/ StoreBack
    \/ HandlerSteps({"h1"})

SpecWS == InitWS /\ [][NextWS]_vars

\* the life of the websockets alone: first message, registration, exit
NextReg ==
    \/ \E h \in Handlers : \E has_store_id, valid_uuid \in BOOLEAN :
          websocket_chat(h, has_store_id, valid_uuid)
    \/ \E h \in Handlers : PeerGone(h)
    \/ \E h \in Handlers : disconnect(h)

SpecReg == InitWS /\ [][NextReg]_vars

\* combine_messages alone: a worker holds any of the lists
InitCombine ==
    /\ clock = 0
    /\ storeUp = TRUE
    /\ redis = [k \in Keys |-> <<>>]
    /\ queue = <<>>
    /\ nextId = 1
    /\ hpc = [h \in Handlers |-> "idle"]
    /\ hmsg = [h \in Handlers |-> <<>>]
    /\ hmessages = [h \in Handlers |-> <<>>]
    /\ hprocess_at = [h \in Handlers |-> 0]
    /\ wpc = [w \in Workers |-> "idle"]
    /\ wjob = [w \in Workers |-> <<>>]
    /\ \E messages \in CombineLists :
          wmessages = [w \in Workers |-> IF w = "w1" THEN messages ELSE <<>>]
    /\ wresp = [w \in Workers |-> "none"]
    /\ transcript = <<>>
    /\ genCalls = <<>>
    /\ pushed = [p \in Procs \X Kinds |-> 0]
    /\ appended = {}
    /\ firsts = {}
    /\ recent = {}
    /\ burstAge = 0
    /\ lastSetAge = 0
    /\ received = [h \in Handlers |-> [k \in Kinds |-> 0]]
    /\ broken = {}
    /\ active_connections = [p \in Procs |-> <<>>]
    /\ accepted = {}

\* combined_message = await combine_messages(messages)
CombineCall ==
    /\ genCalls = <<>>
    /\ genCalls' = <<[ids |-> [i \in 1..Len(wmessages["w1"]) |-> wmessages["w1"][i].id],
                      user_message |-> combine_messages(wmessages["w1"])]>>
    /\ UNCHANGED <<clock, storeUp, redis, queue, nextId, hvars, wvars, transcript,
                   wsvars, histvars>>

SpecCombine == InitCombine /\ [][CombineCall]_vars

\* ------------------------------------------------------------ claims
\* the message ids of one call of process_message
CallIds(i) == {genCalls[i].ids[k] : k \in 1..Len(genCalls[i].ids)}

BurstAbsent(r) == r[BUFFER_KEY] = <<>> /\ r[PROCESS_AT_KEY] = <<>>

\* C1: messages one connection sends inside one debounce window lead to one
\* ticket: of two entries stamped within the same second, at most one was
\* reported is_first_message = True.
C1_SingleTicketPerBurst ==
    \A a \in firsts : \A b \in firsts :
        (a.h = b.h /\ a.id \in recent /\ b.id \in recent) => a.id = b.id

\* C2: messages one connection appended inside one debounce window are
\* handled by one execution: a call of process_message that holds one of two
\* entries stamped within the same second holds the other one too.
C2_Coalescing ==
    \A i \in 1..Len(genCalls) : \A a \in appended : \A b \in appended :
        (a.h = b.h /\ a.id \in recent /\ b.id \in recent /\ a.id \in CallIds(i))
            => b.id \in CallIds(i)

\* C3: a burst is never processed twice: every message is passed to
\* process_message at most once and has at most one user row in the
\* transcript.
C3_NeverProcessedTwice ==
    \A m \in 1..MaxMsgs :
        /\ Cardinality({i \in 1..Len(genCalls) : m \in CallIds(i)}) <= 1
        /\ Cardinality({i \in 1..Len(transcript) :
                            transcript[i].role = "user" /\ transcript[i].id = m}) <= 1

\* C4: no worker starts process_buffered_messages for a ticket before the
\* delay max(0, processAt - now) computed at the enqueue has elapsed.
C4_DelayRespected ==
    \A w \in Workers : wjob[w] # <<>> => wjob[w][1].wait = 0

\* C5: a burst is consumed no earlier than its current processAt: when an
\* execution reads a non-empty buffer, the stored process_at has been reached.
C5_DebounceExtension ==
    [][\A w \in Workers :
          (wpc[w] = "read" /\ wpc'[w] \in {"flush", "clear_empty"}
             /\ Present(PROCESS_AT_KEY))
          => redis[PROCESS_AT_KEY][1].val = 0]_vars

\* C6: when response generation has failed, the clear_buffer the execution
\* ends with leaves both keys absent (Redis being reachable); an
\* add_message_to_buffer that finds no buffer reports is_first_message = True,
\* and handle_chat_message then enqueues a ticket.
C6_StuckBufferPrevention ==
    [][/\ \A w \in Workers :
            (wresp[w] = "failed" /\ wpc[w] \in {"clear", "except"}
               /\ wpc'[w] # wpc[w] /\ storeUp)
            => BurstAbsent(redis')
       /\ \A h \in Handlers :
            /\ (hpc[h] = "get" /\ hpc'[h] = "set_buffer" /\ ~Present(BUFFER_KEY))
               => Len(hmessages'[h]) = 1
            /\ (hpc[h] = "schedule" /\ hpc'[h] # "schedule" /\ storeUp
                  /\ Len(hmessages[h]) = 1)
               => Len(queue') = Len(queue) + 1]_vars

\* C6 witness: generation failed, the execution has cleared the buffer, and a
\* later message was reported as the first of a new burst.
C6_Witness ==
    \E w \in Workers : \E h \in Handlers :
        /\ wresp[w] = "failed" /\ wpc[w] = "push"
        /\ hpc[h] = "schedule" /\ is_first_message(h)
        /\ \A k \in 1..Len(wmessages[w]) : wmessages[w][k].id # hmessages[h][1].id

\* C7 as claimed: the buffer is gone within MESSAGE_BUFFER_TIMEOUT_SECONDS + 10
\* seconds of the start of its burst.
C7_GoneWithinTTLOfBurstStart ==
    Present(BUFFER_KEY) => burstAge <= BUFFER_TTL

\* C7 as amended: the buffer is gone within MESSAGE_BUFFER_TIMEOUT_SECONDS + 10
\* seconds of the last write of its key; every append starts the time to live
\* anew.
C7_GoneWithinTTLOfLastWrite ==
    Present(BUFFER_KEY) => lastSetAge < BUFFER_TTL

\* C7 witness: a buffer in the last second of its time to live that has
\* outlived the time to live of its burst.
C7_Witness ==
    Present(BUFFER_KEY) /\ lastSetAge = BUFFER_TTL - 1 /\ burstAge > BUFFER_TTL

\* C8: while the burst exists, a write of the process_at key never lowers
\* the stored process_at.
C8_ProcessAtMonotone ==
    [][\A h \in Handlers :
          (hpc[h] = "set_process_at" /\ hpc'[h] = "schedule"
             /\ Present(BUFFER_KEY) /\ Present(PROCESS_AT_KEY))
          => redis'[PROCESS_AT_KEY][1].val >= redis[PROCESS_AT_KEY][1].val]_vars

\* C9: an execution that finds no burst (key absent, expired, cleared, or the
\* read raised) returns at once and writes no transcript row, calls
\* process_message not at all, pushes nothing and leaves Redis and the queue
\* as they are.
C9_IdempotentNoOp ==
    [][\A w \in Workers :
          (wpc[w] = "read" /\ wpc'[w] # "read"
             /\ (~storeUp \/ ~Present(BUFFER_KEY)))
          => /\ wpc'[w] = "idle"
             /\ UNCHANGED <<redis, queue, transcript, genCalls, pushed>>]_vars

\* C9 witness: an execution is about to read, a burst has been processed
\* before and no buffer is there.
C9_Witness ==
    \E w \in Workers :
        wpc[w] = "read" /\ get_buffered_messages = <<>> /\ transcript # <<>>

\* C10: when response generation has failed, the execution pushes a payload
\* of type "error" and no payload of type "message" with role "assistant".
C10_ErrorPayloadOnFailure ==
    [][\A w \in Workers :
          (wpc[w] = "push" /\ wresp[w] = "failed" /\ wpc'[w] = "idle")
          => /\ pushed'[<<"worker", "error">>] = pushed[<<"worker", "error">>] + 1
             /\ pushed'[<<"worker", "assistant">>]
                    = pushed[<<"worker", "assistant">>]]_vars

\* C11: an execution that ends with an error after the burst was read has
\* cleared the buffer first: the step that leaves the except clause leaves
\* both keys absent (Redis being reachable), and the execution raises from
\* nowhere else.
C11_ClearedBeforeError ==
    [][\A w \in Workers :
          /\ (wpc[w] = "except" /\ wpc'[w] # "except" /\ storeUp)
             => (wpc'[w] = "idle" /\ BurstAbsent(redis'))
          /\ (wpc[w] \in {"flush", "commit"} /\ wpc'[w] \notin {wpc[w], "generate", "clear"})
             => (wpc'[w] = "except" /\ redis' = redis)]_vars

\* C11 witness: the flush or the commit has raised while the buffer is still
\* there, and the except clause is about to clear it.
C11_Witness ==
    \E w \in Workers :
        wpc[w] = "except" /\ storeUp /\ Present(BUFFER_KEY) /\ Present(PROCESS_AT_KEY)

\* C12: the reply of an execution in a worker process reaches the websocket
\* registered for the conversation in the API process: when the execution
\* pushes while such a websocket is registered and its peer is there, that
\* websocket gets exactly one more assistant payload.
C12_ReplyReachesConnection ==
    [][\A w \in Workers :
          (wpc[w] = "push" /\ wpc'[w] = "idle"
             /\ active_connections["api"] # <<>>
             /\ active_connections["api"][1] \notin broken)
          => received'[active_connections["api"][1]]["assistant"]
                 = received[active_connections["api"][1]]["assistant"] + 1]_vars

\* C13: add_message_to_buffer without a concurrent writer: the list it builds
\* is the stored list (empty if absent) with the new message last, so
\* message_count is the previous count + 1; process_at is now + the debounce
\* window; the list is stored as built; is_first_message is true exactly when
\* no buffer was there; process_at is stored as computed, and both keys have
\* the same time to live, longer than the debounce window.
C13_AppendContract ==
    [][\A h \in Handlers :
          /\ (hpc[h] = "get" /\ hpc'[h] = "set_buffer")
             => /\ hmessages'[h] = Append(GetBuffer, hmsg[h][1])
                /\ Len(hmessages'[h]) = Len(GetBuffer) + 1
                /\ hprocess_at'[h] = MESSAGE_BUFFER_TIMEOUT_SECONDS
          /\ (hpc[h] = "set_buffer" /\ hpc'[h] = "set_process_at"
                /\ GetBuffer = SubSeq(hmessages[h], 1, Len(hmessages[h]) - 1))
             => /\ redis'[BUFFER_KEY] # <<>>
                /\ redis'[BUFFER_KEY][1].val = Append(GetBuffer, hmsg[h][1])
                /\ is_first_message(h) <=> ~Present(BUFFER_KEY)
          /\ (hpc[h] = "set_process_at" /\ hpc'[h] = "schedule"
                /\ Present(BUFFER_KEY) /\ redis[BUFFER_KEY][1].val = hmessages[h])
             => /\ redis'[BUFFER_KEY] = redis[BUFFER_KEY]
                /\ redis'[PROCESS_AT_KEY] # <<>>
                /\ redis'[PROCESS_AT_KEY][1].val = hprocess_at[h]
                /\ redis'[PROCESS_AT_KEY][1].ttl = redis'[BUFFER_KEY][1].ttl
                /\ redis'[BUFFER_KEY][1].ttl > MESSAGE_BUFFER_TIMEOUT_SECONDS]_vars

\* C13 witness: add_message_to_buffer has returned for a second message of a
\* burst, and the stored list is the list it built.
C13_Witness ==
    \E h \in Handlers :
        /\ hpc[h] = "schedule" /\ Len(hmessages[h]) = 2
        /\ Present(BUFFER_KEY) /\ redis[BUFFER_KEY][1].val = hmessages[h]
        /\ Present(PROCESS_AT_KEY)

\* the positions of s that hold no white space
C14_Solid(s) == {i \in 1..Len(s) : s[i] \notin {" ", "\n"}}

\* s without the white space at its two ends
C14_Trimmed(s) ==
    IF C14_Solid(s) = {} THEN <<>>
    ELSE SubSeq(s, CHOOSE i \in C14_Solid(s) : \A j \in C14_Solid(s) : i <= j,
                   CHOOSE i \in C14_Solid(s) : \A j \in C14_Solid(s) : i >= j)

RECURSIVE C14_Merge(_, _)
\* the contents from the left: each trimmed, an empty one skipped, a blank
\* line before each but the first
C14_Merge(messages, acc) ==
    IF messages = <<>> THEN acc
    ELSE LET t == C14_Trimmed(Head(messages).content)
         IN  C14_Merge(Tail(messages),
                       IF t = <<>> THEN acc
                       ELSE IF acc = <<>> THEN t
                       ELSE acc \o <<"\n", "\n">> \o t)

\* C14: combine_messages returns the empty string for an empty list, the
\* content of a single message verbatim, and for two or more messages the
\* contents in list order, each trimmed, the empty ones dropped, joined by
\* "\n\n".
C14_DeterministicMerge ==
    genCalls # <<>> =>
        genCalls[1].user_message =
            IF Len(wmessages["w1"]) = 0 THEN <<>>
            ELSE IF Len(wmessages["w1"]) = 1 THEN wmessages["w1"][1].content
            ELSE C14_Merge(wmessages["w1"], <<>>)

\* C14 witness: three messages were combined; the blank one is dropped, the
\* two others appear trimmed and in order.
C14_Witness ==
    /\ genCalls # <<>>
    /\ Len(wmessages["w1"]) = 3
    /\ wmessages["w1"][2].content = <<" ">>
    /\ genCalls[1].user_message = <<"a", " ", "b", "\n", "\n", "a">>

\* C15: when the combined text of the burst read is empty after trimming,
\* the execution goes on to clear_buffer only: it clears the buffer (Redis
\* being reachable) and returns, and neither step writes a transcript row,
\* calls process_message or pushes a reply.
C15_EmptyBurstDropped ==
    [][\A w \in Workers :
          /\ (wpc[w] = "read" /\ wpc'[w] # "read"
                /\ get_buffered_messages # <<>>
                /\ C14_Trimmed(combine_messages(get_buffered_messages)) = <<>>)
             => /\ wpc'[w] = "clear_empty"
                /\ UNCHANGED <<transcript, genCalls, pushed, received>>
          /\ (wpc[w] = "clear_empty" /\ wpc'[w] # "clear_empty")
             => /\ wpc'[w] = "idle"
                /\ storeUp => BurstAbsent(redis')
                /\ UNCHANGED <<transcript, genCalls, pushed, received>>]_vars

\* C15 witness: an execution has read a burst of one blank message and is
\* about to clear it.
C15_Witness ==
    \E w \in Workers :
        /\ wpc[w] = "clear_empty"
        /\ Len(wmessages[w]) = 1 /\ wmessages[w][1].content = <<" ">>
        /\ Present(BUFFER_KEY)

\* C16: a Redis error during a write of the buffer store reaches the caller:
\* add_message_to_buffer raises into handle_chat_message, and clear_buffer
\* raises into process_buffered_messages, which then ends in its except
\* clause instead of going on.
C16_WriteErrorsSurfaced ==
    [][/\ \A h \in Handlers :
            (hpc[h] \in {"get", "set_buffer", "set_process_at"}
               /\ hpc'[h] # hpc[h] /\ ~storeUp)
            => hpc'[h] = "error"
       /\ \A w \in Workers :
            (wpc[w] \in {"clear", "clear_empty"} /\ wpc'[w] # wpc[w] /\ ~storeUp)
            => wpc'[w] = "except"]_vars

\* C17: when add_message_to_buffer or enqueue_job raises in
\* handle_chat_message, the handler goes to its except clause, and there
\* send_message is called with an error payload, which the websocket
\* registered for the conversation receives if its peer is there.
C17_InboundFailsLoudly ==
    [][\A h \in Handlers :
          /\ (hpc[h] \in {"get", "set_buffer", "set_process_at"}
                /\ hpc'[h] # hpc[h] /\ ~storeUp)
             => hpc'[h] = "error"
          /\ (hpc[h] = "schedule" /\ hpc'[h] # hpc[h] /\ ~storeUp
                /\ is_first_message(h))
             => hpc'[h] = "error"
          /\ (hpc[h] = "error" /\ hpc'[h] # "error")
             => /\ pushed'[<<"api", "error">>] = pushed[<<"api", "error">>] + 1
                /\ (active_connections["api"] # <<>>
                      /\ active_connections["api"][1] \notin broken)
                   => received'[active_connections["api"][1]]["error"]
                        = received[active_connections["api"][1]]["error"] + 1]_vars

\* C17 witness: a call has raised with the buffer written and no job
\* enqueued, and a websocket has received the error payload.
C17_Witness ==
    /\ \E h \in Handlers : received[h]["error"] > 0
    /\ Present(BUFFER_KEY) /\ Present(PROCESS_AT_KEY)
    /\ queue = <<>>

\* C18: the key of the conversation holds at most one websocket: connect
\* puts the connecting websocket there in place of any other, disconnect
\* empties the key, nothing else changes the key but a send that raised, and
\* send_message sends to no websocket but the registered one.
C18_LastConnectWins ==
    [][/\ Len(active_connections'["api"]) <= 1
       /\ \A h \in Handlers :
            /\ (h \notin accepted /\ h \in accepted')
               => active_connections'["api"] = <<h>>
            /\ (h \in accepted /\ h \notin accepted')
               => active_connections'["api"] = <<>>
            /\ received'[h] # received[h]
               => (active_connections["api"] = <<h>> /\ pushed' # pushed)
       /\ (accepted' = accepted /\ active_connections' # active_connections)
          => (pushed' # pushed /\ active_connections'["api"] = <<>>)]_vars

\* C18 witness: both websockets are connected, "h2" last, and a payload sent
\* while "h1" was handled has gone to "h2".
C18_Witness ==
    /\ accepted = Handlers
    /\ active_connections["api"] = <<"h2">>
    /\ received["h2"]["typing"] > 0
    /\ hpc["h1"] # "idle"

\* a step in which the API process calls send_message
C19_ApiPush == \E k \in Kinds : pushed'[<<"api", k>>] # pushed[<<"api", k>>]

\* no websocket is registered in the API process, or its peer is gone
C19_Undeliverable ==
    active_connections["api"] = <<>> \/ active_connections["api"][1] \in broken

\* C19 as claimed: a payload that cannot be delivered is dropped and the
\* caller is told delivered = false.
C19_CallerToldNotDelivered ==
    [][(C19_ApiPush /\ C19_Undeliverable)
          => /\ received' = received
             /\ \A k \in Kinds : send_message_returns("api", k) = "False"]_vars

\* C19 as amended: a payload that cannot be delivered is dropped: no
\* websocket receives it; a send that raised leaves the key empty, and a push
\* with the key empty sends nothing and leaves it empty; send_message returns
\* None whether or not it delivered.
C19_BestEffortPush ==
    [][C19_ApiPush
          => /\ \A k \in Kinds : send_message_returns("api", k) = "None"
             /\ C19_Undeliverable
                => /\ received' = received
                   /\ active_connections'["api"] = <<>>]_vars

\* C19 witness: the peer of a websocket is gone, a payload sent to it was
\* dropped, and the key is empty.
C19_Witness ==
    /\ \E h \in Handlers : h \in broken /\ hpc[h] # "idle"
    /\ active_connections["api"] = <<>>
    /\ \E k \in Kinds :
          pushed[<<"api", k>>] > received["h1"][k] + received["h2"][k]

\* C20: every message handled is echoed once, while it is handled and before
\* its burst is processed: the step of handle_chat_message that follows
\* add_message_to_buffer sends one user payload, and an execution reads no
\* message stamped within the current second whose echo is still to come.
C20_EchoBeforeProcessing ==
    [][/\ \A h \in Handlers :
            (hpc[h] = "schedule" /\ hpc'[h] # "schedule")
            => pushed'[<<"api", "user">>] = pushed[<<"api", "user">>] + 1
       /\ \A w \in Workers :
            (wpc[w] = "read" /\ wpc'[w] \in {"flush", "clear_empty"})
            => \A k \in 1..Len(wmessages'[w]) :
                  wmessages'[w][k].id \in recent
                  => ~ \E h \in Handlers :
                         /\ hpc[h] \in {"set_process_at", "schedule"}
                         /\ hmsg[h][1].id = wmessages'[w][k].id]_vars

\* C21: the conversation has one burst: Redis holds the two keys of the
\* conversation and no other; a message list is written under the buffer key
\* only, and it is the list add_message_to_buffer built from the one it read;
\* the process_at key is written by the second set of add_message_to_buffer
\* only.
C21_SingleBurst ==
    [][/\ DOMAIN redis' = Keys
       /\ (redis'[BUFFER_KEY] # <<>> /\ redis'[BUFFER_KEY] # redis[BUFFER_KEY])
          => \/ redis' = Expire(redis)
             \/ \E h \in Handlers :
                   /\ hpc[h] = "set_buffer" /\ hpc'[h] = "set_process_at"
                   /\ redis'[BUFFER_KEY][1].val = hmessages[h]
                   /\ redis'[PROCESS_AT_KEY] = redis[PROCESS_AT_KEY]
       /\ (redis'[PROCESS_AT_KEY] # <<>>
             /\ redis'[PROCESS_AT_KEY] # redis[PROCESS_AT_KEY])
          => \/ redis' = Expire(redis)
             \/ \E h \in Handlers :
                   /\ hpc[h] = "set_process_at" /\ hpc'[h] = "schedule"
                   /\ redis'[BUFFER_KEY] = redis[BUFFER_KEY]]_vars

\* C21 witness: two appends have gone to the buffer key, which holds both
\* messages in one list.
C21_Witness ==
    /\ Present(BUFFER_KEY) /\ Len(redis[BUFFER_KEY][1].val) = 2
    /\ Present(PROCESS_AT_KEY)
    /\ Cardinality(appended) = 2

\* the ids of the messages of a list
C22_Ids(messages) == {messages[k].id : k \in 1..Len(messages)}

\* C22: no append overwrites another: when add_message_to_buffer writes the
\* buffer key, every stored message whose own append has returned is in the
\* list written, before the message being appended.
C22_NoLostAppend ==
    [][\A h \in Handlers :
          (hpc[h] = "set_buffer" /\ hpc'[h] = "set_process_at" /\ Present(BUFFER_KEY))
          => \A e \in appended :
                e.id \in C22_Ids(redis[BUFFER_KEY][1].val)
                => e.id \in C22_Ids(SubSeq(redis'[BUFFER_KEY][1].val, 1,
                                           Len(redis'[BUFFER_KEY][1].val) - 1))]_vars

\* C23: the clear after the commit deletes what is stored, not what was read:
\* with Redis reachable both keys are absent afterwards, also when a message
\* was appended since the read, and the step puts that message nowhere: no
\* call of process_message, no transcript row, no ticket.
C23_ClearDeletesLateMessage ==
    [][\A w \in Workers :
          (wpc[w] = "clear" /\ wpc'[w] # "clear" /\ storeUp)
          => /\ BurstAbsent(redis')
             /\ UNCHANGED <<queue, transcript, genCalls, hmessages>>]_vars

\* C23 witness: within one second a message was appended after the read of
\* an execution, not as a first message; the execution has committed and
\* ended, the buffer is gone, no ticket is left, and the message is in no
\* call of process_message and in no transcript row.
C23_Witness ==
    /\ \A h \in Handlers : hpc[h] = "idle"
    /\ \A w \in Workers : wpc[w] = "idle"
    /\ queue = <<>>
    /\ ~Present(BUFFER_KEY)
    /\ genCalls # <<>>
    /\ transcript # <<>>
    /\ \E e \in appended \ firsts :
          /\ e.id \in recent
          /\ \A i \in 1..Len(genCalls) : e.id \notin CallIds(i)
          /\ \A i \in 1..Len(transcript) : transcript[i].id # e.id

\* C24: a ticket holds no message content, and an execution works on the
\* list the buffer key holds when it reads: every message stored at that
\* moment, whenever appended, is in the list it processes.
C24_ReadsAtExecutionTime ==
    [][/\ \A i \in 1..Len(queue') : DOMAIN queue'[i] = {"wait"}
       /\ \A w \in Workers :
            (wpc[w] = "read" /\ wpc'[w] # "read" /\ storeUp /\ Present(BUFFER_KEY))
            => /\ wmessages'[w] = redis[BUFFER_KEY][1].val
               /\ wpc'[w] \in {"flush", "clear_empty"}]_vars

\* C24 witness: one job was enqueued, for the first message; the execution
\* holds that message and one appended after the enqueue.
C24_Witness ==
    \E w \in Workers :
        /\ wpc[w] = "flush"
        /\ Len(wmessages[w]) = 2
        /\ Cardinality(firsts) = 1
        /\ \E e \in firsts : e.id = wmessages[w][1].id
        /\ \E e \in appended \ firsts : e.id = wmessages[w][2].id

\* the last n rows of the transcript
C25_LastRows(n) == SubSeq(transcript, Len(transcript) - n + 1, Len(transcript))

\* C25: a successful execution goes through its steps in this order: the user
\* rows and the flush, one call of process_message with the combined text,
\* the assistant row and the commit, which puts a user row per buffered
\* message in buffer order and then one assistant row into the transcript,
\* clear_buffer, and the push last; at the push the rows are committed, and
\* they are so with no websocket registered in the worker process.
C25_StepOrder ==
    [][\A w \in Workers :
          /\ (wpc[w] = "flush" /\ wpc'[w] # "flush")
             => /\ wpc'[w] \in {"generate", "except"}
                /\ UNCHANGED <<genCalls, transcript, redis, pushed>>
          /\ (wpc[w] = "generate" /\ wpc'[w] # "generate")
             => /\ wpc'[w] = "commit"
                /\ Len(genCalls') = Len(genCalls) + 1
                /\ genCalls'[Len(genCalls')].user_message = combine_messages(wmessages[w])
                /\ UNCHANGED <<transcript, redis, pushed>>
          /\ (wpc[w] = "commit" /\ wpc'[w] = "clear")
             => /\ Len(transcript') = Len(transcript) + Len(wmessages[w]) + 1
                /\ \A i \in 1..Len(wmessages[w]) :
                      /\ transcript'[Len(transcript) + i].role = "user"
                      /\ transcript'[Len(transcript) + i].id = wmessages[w][i].id
                /\ transcript'[Len(transcript')].role = "assistant"
                /\ UNCHANGED <<genCalls, redis, pushed>>
          /\ (wpc[w] = "clear" /\ wpc'[w] # "clear")
             => /\ wpc'[w] = "push"
                /\ UNCHANGED <<genCalls, transcript, pushed>>
          /\ (wpc[w] = "push" /\ wpc'[w] # "push")
             => /\ wpc'[w] = "idle"
                /\ pushed'[<<"worker", "assistant">>]
                      = pushed[<<"worker", "assistant">>] + 1
                /\ active_connections["worker"] = <<>>
                /\ Len(transcript) >= Len(wmessages[w]) + 1
                /\ C25_LastRows(1)[1].role = "assistant"
                /\ UNCHANGED <<genCalls, transcript, redis>>]_vars

\* C25 witness: an execution with two buffered messages has committed and
\* cleared and is about to push; no websocket is registered in its process.
C25_Witness ==
    \E w \in Workers :
        /\ wpc[w] = "push" /\ Len(wmessages[w]) = 2
        /\ active_connections["worker"] = <<>>
        /\ Len(transcript) >= 3
        /\ C25_LastRows(3)[1].id = wmessages[w][1].id
        /\ C25_LastRows(3)[2].id = wmessages[w][2].id
        /\ C25_LastRows(3)[3].role = "assistant"

\* C26: while handle_chat_message is not in progress, a stored burst has a
\* job that is queued or being executed.
C26_NoOrphanBurst ==
    ((\A h \in Handlers : hpc[h] = "idle") /\ Present(BUFFER_KEY))
    => (queue # <<>> \/ \E w \in Workers : wpc[w] # "idle")

\* C27: when the handler of a websocket that is no longer the registered one
\* exits, the registration of the newer websocket stays.
C27_NewerRegistrationKept ==
    [][\A h \in Handlers :
          (/\ h \in accepted /\ h \notin accepted'
           /\ active_connections["api"] # <<>>
           /\ active_connections["api"] # <<h>>)
          => active_connections'["api"] = active_connections["api"]]_vars

\* C28: the registry holds a websocket only while its websocket_chat is
\* between manager.connect and its exit: a websocket whose first message
\* fails validation gets the error payload and is not registered, and the
\* exit of a registered websocket's handler leaves the key unregistered.
C28_RegisteredWhileServed ==
    [][\A h \in Handlers :
          /\ active_connections'["api"] = <<h>> => h \in accepted'
          /\ (h \notin accepted /\ received'[h]["error"] = received[h]["error"] + 1)
             => /\ h \notin accepted'
                /\ active_connections' = active_connections
          /\ (h \in accepted /\ h \notin accepted')
             => active_connections'["api"] = <<>>]_vars

\* C28 witness: h2 was sent the error payload for its first message and is
\* not served, while h1 is registered and served.
C28_Witness ==
    /\ received["h2"]["error"] = 1
    /\ "h2" \notin accepted
    /\ active_connections["api"] = <<"h1">>
    /\ "h1" \in accepted

\* C29: whenever no add_message_to_buffer is between its first and its last
\* Redis call, whether the last call completed or failed, the buffer key and
\* the process_at key are both set or both absent, and when set they expire
\* at the same time (clear_buffer deletes both with one call).
C29_KeysTogether ==
    (\A h \in Handlers : hpc[h] \in {"idle", "schedule", "error"})
    => /\ Present(BUFFER_KEY) <=> Present(PROCESS_AT_KEY)
       /\ (Present(BUFFER_KEY) /\ Present(PROCESS_AT_KEY))
          => redis[BUFFER_KEY][1].ttl = redis[PROCESS_AT_KEY][1].ttl

\* the rows with the given role among rows from+1 .. Len(rows)
C30_Added(rows, from, role) == {i \in (from + 1)..Len(rows) : rows[i].role = role}

\* C30: an execution that fails before its commit has put no row into the
\* transcript, and its error path leaves no row and, with Redis reachable,
\* no buffer; an execution that commits has put a user row for every message
\* of the burst and exactly one assistant row; the transcript never ends with
\* user rows that have no reply.
C30_AllOrNothing ==
    [][\A w \in Workers :
          /\ (wpc[w] \in {"flush", "generate", "commit"} /\ wpc'[w] = "except")
             => transcript' = transcript
          /\ (wpc[w] = "except" /\ wpc'[w] # "except")
             => /\ transcript' = transcript
                /\ storeUp => ~Present(BUFFER_KEY)'
          /\ (wpc[w] = "commit" /\ wpc'[w] = "clear")
             => /\ {transcript'[i].id : i \in C30_Added(transcript', Len(transcript), "user")}
                      = {wmessages[w][k].id : k \in 1..Len(wmessages[w])}
                /\ Cardinality(C30_Added(transcript', Len(transcript), "user"))
                      = Len(wmessages[w])
                /\ Cardinality(C30_Added(transcript', Len(transcript), "assistant")) = 1
                /\ SubSeq(transcript', 1, Len(transcript)) = transcript
          /\ transcript' = <<>> \/ transcript'[Len(transcript')].role = "assistant"]_vars

\* C30 witness: after an execution that committed a burst of one message, a
\* second execution has failed before its commit: the transcript holds the
\* rows of the first only, and the second burst is still in the buffer for
\* the error path to clear.
C30_Witness ==
    \E w \in Workers :
        /\ wpc[w] = "except" /\ storeUp /\ Present(BUFFER_KEY)
        /\ Len(wmessages[w]) = 1
        /\ Len(transcript) = 2
        /\ transcript[1].role = "user" /\ transcript[2].role = "assistant"
        /\ transcript[1].id # wmessages[w][1].id

====
